---- MODULE Spec2Model ----
(***************************************************************************)
(* Model of provision_oci_win_instances_auto_Version3.py: an interactive   *)
(* script that resolves a parent compartment, discovers a VCN, a subnet,   *)
(* an availability domain and a Windows image, creates the compartment     *)
(* 'tempcomp', polls it until ACTIVE, and launches INSTANCE_COUNT          *)
(* instances one after the other, waiting for each to be RUNNING.          *)
(*                                                                         *)
(* The script is one sequential process; pc is its position.  The cloud    *)
(* and the user are the environment: every listing, response state and     *)
(* typed line is drawn from a small set, and every cloud call may raise.   *)
(* Text typed by the user is a sequence of one-character strings, so that  *)
(* strip, lower, startswith, isdigit and int are computed as Python does.  *)
(***************************************************************************)
EXTENDS Integers, Sequences, FiniteSets, TLC

VARIABLES
    pc,                       \* position of the script
    exit_code,                \* -1 while running, then the process exit status
    out,                      \* the last line printed when the run ended
    raised,                   \* the uncaught exception that ended the run, or ""
    use_root,                 \* line 28
    parent_compartment_ocid,  \* line 30 / 36
    vnets, vcn,               \* lines 41, 46
    subnets, subnet_id,       \* lines 50, 56
    ads, ad_name,             \* lines 62, 65
    images, win_image_id,     \* lines 70, 81
    compartment_id,           \* line 102
    comp,                     \* lifecycle_state of the last get_compartment response
    i,                        \* loop variable of the poll loop, line 107
    slept,                    \* time units spent in time.sleep, line 112
    idx,                      \* loop variable of the launch loop, line 119
    instance_id,              \* line 146
    launched,                 \* the LaunchInstanceDetails submitted, in order
    instances,                \* cloud side: lifecycle_state of each launched instance
    calls,                    \* every cloud call issued, in order, with its outcome
    selects,                  \* every choose_from_list invocation: prompt and len(items)
    stdin_line                \* the line input() returned at line 14, where a run keeps it

exitVars == <<exit_code, out, raised>>
discVars == <<use_root, parent_compartment_ocid, vnets, vcn, subnets, subnet_id, ads,
              ad_name, images, win_image_id>>
compVars == <<compartment_id, comp, i, slept>>
instVars == <<idx, instance_id, launched, instances>>
vars == <<pc, exitVars, discVars, compVars, instVars, calls, selects, stdin_line>>

-----------------------------------------------------------------------------
(* Bounds of the environment *)

MaxItems == 1          \* longest listing the cloud returns

Times == {1}           \* creation timestamps of the images the cloud lists

(* Program constants *)

INSTANCE_COUNT == 4
OCPUS == 54
MEMORY_GBS == 512
BOOT_VOL_GBS == 50
PollAttempts == 30
SleepSecs == 2

COMPARTMENT_NAME == "tempcomp"
INSTANCE_PREFIX == "auto-win-instance"
SHAPE == "VM.Standard3.Flex"

-----------------------------------------------------------------------------
(* Text: str.strip, str.lower, str.startswith, str.isdigit, int *)

Whitespace == {" ", "\t"}

RECURSIVE lstrip(_)
lstrip(s) ==
    IF Len(s) > 0 /\ Head(s) \in Whitespace THEN lstrip(Tail(s)) ELSE s

RECURSIVE rstrip(_)
rstrip(s) ==
    IF Len(s) > 0 /\ s[Len(s)] \in Whitespace
    THEN rstrip(SubSeq(s, 1, Len(s) - 1))
    ELSE s

\* a strip that leaves trailing whitespace
strip_left_only(s) == lstrip(s)

strip(s) == rstrip(lstrip(s))

lowerChar(c) == IF c = "N" THEN "n" ELSE c

lower(s) == [k \in 1..Len(s) |-> lowerChar(s[k])]

startswith(s, prefix) ==
    /\ Len(s) >= Len(prefix)
    /\ SubSeq(s, 1, Len(prefix)) = prefix

Decimal == <<"0", "1", "2", "3", "4", "5", "6", "7", "8", "9">>

DecimalDigits == {Decimal[k] : k \in 1..Len(Decimal)}

\* "sup2" stands for U+00B2 SUPERSCRIPT TWO: str.isdigit() accepts it, int() does not.
DigitChars == DecimalDigits \cup {"sup2"}

isdigit(s) == Len(s) > 0 /\ \A k \in 1..Len(s) : s[k] \in DigitChars

IntParses(s) == Len(s) > 0 /\ \A k \in 1..Len(s) : s[k] \in DecimalDigits

DigitVal(c) == (CHOOSE k \in 1..Len(Decimal) : Decimal[k] = c) - 1

RECURSIVE int(_)
int(s) ==
    IF Len(s) = 0 THEN 0
    ELSE 10 * int(SubSeq(s, 1, Len(s) - 1)) + DigitVal(s[Len(s)])

-----------------------------------------------------------------------------
(* choose_from_list, lines 4-16.  The result is the exception it raises, or *)
(* "" and the item it returns.  Python indexes from 0, a sequence from 1.   *)

NoItem == [id |-> 0, name |-> 0, time_created |-> 0]

\* a selector that answers a placeholder instead of failing
choose_from_list_default(items, typed) ==
    [raised |-> "", item |-> IF Len(items) = 0 THEN NoItem ELSE items[1]]

choose_from_list(items, typed) ==
    LET choice == strip(typed)
    IN  IF isdigit(choice) /\ ~IntParses(choice)
        THEN [raised |-> "ValueError", item |-> NoItem]
        ELSE LET n == IF isdigit(choice) /\ int(choice) < Len(items)
                      THEN int(choice)
                      ELSE 0
             IN  IF n >= Len(items)
                 THEN [raised |-> "IndexError", item |-> NoItem]
                 ELSE [raised |-> "", item |-> items[n + 1]]

\* Lines the user may type at a choose_from_list prompt.
ChoiceInputs ==
    { <<>>, <<"0">>, <<"1">>, <<" ", "1", " ">>, <<"2">>, <<"0", "1">>,
      <<"-", "1">>, <<"x">>, <<"1", "0">>, <<"sup2">> }

-----------------------------------------------------------------------------
(* Identifiers *)

OcidPrefix ==
    <<"o", "c", "i", "d", "1", ".", "c", "o", "m", "p", "a", "r", "t", "m",
      "e", "n", "t", ".">>

\* config["tenancy"], lines 36 and 61
TenancyOcid ==
    <<"o", "c", "i", "d", "1", ".", "t", "e", "n", "a", "n", "c", "y", ".", "r">>

\* the id the cloud gives the compartment created at line 95
NewCompartmentOcid == OcidPrefix \o <<"n", "e", "w">>

\* Lines the user may type at "Use root compartment?"
UseRootInputs ==
    { <<>>, <<"n">>, <<"N">>, <<" ", "n", " ">>, <<"n", "o">> }

\* Lines the user may type at "Enter parent compartment OCID"
OcidInputs ==
    { OcidPrefix \o <<"a">>,
      <<" ">> \o OcidPrefix \o <<"a">> \o <<" ">>,
      TenancyOcid,
      SubSeq(OcidPrefix, 1, Len(OcidPrefix) - 1),
      <<"x">> \o OcidPrefix,
      <<>> }

-----------------------------------------------------------------------------
(* What the cloud may answer *)

ItemLists == {[k \in 1..n |-> [id |-> k]] : n \in 0..MaxItems}

SubnetLists(v) == {[k \in 1..n |-> [id |-> 10 * v.id + k]] : n \in 0..MaxItems}

AdLists == {[k \in 1..n |-> [name |-> k]] : n \in 0..MaxItems}

ImageLists ==
    UNION { {[k \in 1..n |-> [id |-> k, time_created |-> f[k]]] : f \in [1..n -> Times]}
            : n \in 0..MaxItems }

CompartmentStates == {"CREATING", "ACTIVE", "DELETED"}

InstanceStates == {"PROVISIONING", "RUNNING", "TERMINATED"}

-----------------------------------------------------------------------------
(* Ending the run *)

\* exit(1) after a message, lines 32-33, 43-44, 52-53, 76-77, 114-115
Exit1(msg) ==
    /\ pc' = "exited"
    /\ exit_code' = 1
    /\ out' = msg
    /\ raised' = ""

\* an uncaught exception: the interpreter prints the traceback and exits with 1
Raise(exc) ==
    /\ pc' = "exited"
    /\ exit_code' = 1
    /\ out' = "Traceback"
    /\ raised' = exc

Call(op, arg, res) == calls' = Append(calls, [op |-> op, arg |-> arg, res |-> res])

Select(prompt, items) ==
    selects' = Append(selects, [prompt |-> prompt, n |-> Len(items)])

-----------------------------------------------------------------------------
Init ==
    /\ pc = "step1"
    /\ exit_code = -1
    /\ out = ""
    /\ raised = ""
    /\ use_root = <<>>
    /\ parent_compartment_ocid = <<>>
    /\ vnets = <<>>
    /\ vcn = NoItem
    /\ subnets = <<>>
    /\ subnet_id = 0
    /\ ads = <<>>
    /\ ad_name = 0
    /\ images = <<>>
    /\ win_image_id = 0
    /\ compartment_id = <<>>
    /\ comp = ""
    /\ i = 0
    /\ slept = 0
    /\ idx = 0
    /\ instance_id = 0
    /\ launched = <<>>
    /\ instances = <<>>
    /\ calls = <<>>
    /\ selects = <<>>
    /\ stdin_line = <<>>

-----------------------------------------------------------------------------
(* Step 1, lines 28-37 *)

\* a check of the first component of the identifier only
ValidOcidAnyKind(ocid) == startswith(ocid, SubSeq(OcidPrefix, 1, 6))

\* `parent_compartment_ocid.startswith("ocid1.compartment.")`, line 31
ValidOcid(ocid) == startswith(ocid, OcidPrefix)

ResolveParent ==
    /\ pc = "step1"
    /\ \E typed \in UseRootInputs :
         /\ use_root' = lower(strip(typed))
         /\ IF use_root' = <<"n">>
             THEN \E line \in OcidInputs :
                    LET ocid == strip(line)
                    IN  IF ~ValidOcid(ocid)
                        THEN /\ Exit1("Invalid OCID format! Exiting.")
                             /\ parent_compartment_ocid' = ocid
                        ELSE /\ pc' = "step2"
                             /\ parent_compartment_ocid' = ocid
                             /\ UNCHANGED exitVars
             ELSE /\ pc' = "step2"
                  /\ parent_compartment_ocid' = TenancyOcid
                  /\ UNCHANGED exitVars
    /\ UNCHANGED <<vnets, vcn, subnets, subnet_id, ads, ad_name, images,
                   win_image_id, compVars, instVars, calls, selects, stdin_line>>

-----------------------------------------------------------------------------
(* Step 2, lines 41-57 *)

Listed(listing) == IF Len(listing) = 0 THEN "empty" ELSE "found"

\* a listing that is never taken to be empty
NoVcnsNever(listing) == FALSE

\* `not vnets`, line 42
NoVcns(listing) == Len(listing) = 0

ListVcns ==
    /\ pc = "step2"
    /\ \/ /\ Call("list_vcns", parent_compartment_ocid, "error")
          /\ Raise("ServiceError")
          /\ UNCHANGED vnets
       \/ \E listing \in ItemLists :
            /\ vnets' = listing
            /\ Call("list_vcns", parent_compartment_ocid, Listed(listing))
            /\ IF NoVcns(listing)
               THEN Exit1("No VCNs found in chosen compartment! Exiting.")
               ELSE pc' = "choose_vcn" /\ UNCHANGED exitVars
    /\ UNCHANGED <<use_root, parent_compartment_ocid, vcn, subnets, subnet_id, ads,
                   ad_name, images, win_image_id, compVars, instVars, selects, stdin_line>>

ChooseVcn ==
    /\ pc = "choose_vcn"
    /\ Select("Select VCN", vnets)
    /\ \E typed \in ChoiceInputs :
         LET r == choose_from_list(vnets, typed)
         IN  IF r.raised # ""
             THEN Raise(r.raised) /\ UNCHANGED vcn
             ELSE /\ vcn' = r.item
                  /\ pc' = "list_subnets"
                  /\ UNCHANGED exitVars
    /\ UNCHANGED <<use_root, parent_compartment_ocid, vnets, subnets, subnet_id, ads,
                   ad_name, images, win_image_id, compVars, instVars, calls, stdin_line>>

\* `not subnets`, line 51
NoSubnets(listing) == Len(listing) = 0

ListSubnets ==
    /\ pc = "list_subnets"
    /\ \/ /\ Call("list_subnets", vcn.id, "error")
          /\ Raise("ServiceError")
          /\ UNCHANGED subnets
       \/ \E listing \in SubnetLists(vcn) :
            /\ subnets' = listing
            /\ Call("list_subnets", vcn.id, Listed(listing))
            /\ IF NoSubnets(listing)
               THEN Exit1("No subnets found in selected VCN! Exiting.")
               ELSE pc' = "choose_subnet" /\ UNCHANGED exitVars
    /\ UNCHANGED <<use_root, parent_compartment_ocid, vnets, vcn, subnet_id, ads,
                   ad_name, images, win_image_id, compVars, instVars, selects, stdin_line>>

ChooseSubnet ==
    /\ pc = "choose_subnet"
    /\ Select("Select Subnet", subnets)
    /\ \E typed \in ChoiceInputs :
         LET r == choose_from_list(subnets, typed)
         IN  IF r.raised # ""
             THEN Raise(r.raised) /\ UNCHANGED subnet_id
             ELSE /\ subnet_id' = r.item.id
                  /\ pc' = "step3"
                  /\ UNCHANGED exitVars
    /\ UNCHANGED <<use_root, parent_compartment_ocid, vnets, vcn, subnets, ads,
                   ad_name, images, win_image_id, compVars, instVars, calls, stdin_line>>

-----------------------------------------------------------------------------
(* Step 3, lines 60-66: the listing is passed to choose_from_list as it is *)

ListAds ==
    /\ pc = "step3"
    /\ \/ /\ Call("list_availability_domains", TenancyOcid, "error")
          /\ Raise("ServiceError")
          /\ UNCHANGED ads
       \/ \E listing \in AdLists :
            /\ ads' = listing
            /\ Call("list_availability_domains", TenancyOcid, Listed(listing))
            /\ pc' = "choose_ad"
            /\ UNCHANGED exitVars
    /\ UNCHANGED <<use_root, parent_compartment_ocid, vnets, vcn, subnets, subnet_id,
                   ad_name, images, win_image_id, compVars, instVars, selects, stdin_line>>

ChooseAd ==
    /\ pc = "choose_ad"
    /\ Select("Select Availability Domain", ads)
    /\ \E typed \in ChoiceInputs :
         LET r == choose_from_list(ads, typed)
         IN  IF r.raised # ""
             THEN Raise(r.raised) /\ UNCHANGED ad_name
             ELSE /\ ad_name' = r.item.name
                  /\ pc' = "step4"
                  /\ UNCHANGED exitVars
    /\ UNCHANGED <<use_root, parent_compartment_ocid, vnets, vcn, subnets, subnet_id,
                   ads, images, win_image_id, compVars, instVars, calls, stdin_line>>

-----------------------------------------------------------------------------
(* Step 4, lines 69-82 *)

\* `not images`, line 75
NoImages(listing) == Len(listing) = 0

ListImages ==
    /\ pc = "step4"
    /\ \/ /\ Call("list_images", parent_compartment_ocid, "error")
          /\ Raise("ServiceError")
          /\ UNCHANGED images
       \/ \E listing \in ImageLists :
            /\ images' = listing
            /\ Call("list_images", parent_compartment_ocid, Listed(listing))
            /\ IF NoImages(listing)
               THEN Exit1("No Windows images found for this shape! Exiting.")
               ELSE pc' = "sort_images" /\ UNCHANGED exitVars
    /\ UNCHANGED <<use_root, parent_compartment_ocid, vnets, vcn, subnets, subnet_id, ads,
                   ad_name, win_image_id, compVars, instVars, selects, stdin_line>>

\* list.sort(key=..., reverse=True) is stable: an item goes behind every item
\* whose key is greater than or equal to its own.
\* an insertion that puts an item in front of the items with an equal key
RECURSIVE InsertDescUnstable(_, _)
InsertDescUnstable(sorted, x) ==
    IF Len(sorted) = 0 THEN <<x>>
    ELSE IF Head(sorted).time_created > x.time_created
         THEN <<Head(sorted)>> \o InsertDescUnstable(Tail(sorted), x)
         ELSE <<x>> \o sorted

RECURSIVE InsertDesc(_, _)
InsertDesc(sorted, x) ==
    IF Len(sorted) = 0 THEN <<x>>
    ELSE IF Head(sorted).time_created >= x.time_created
         THEN <<Head(sorted)>> \o InsertDesc(Tail(sorted), x)
         ELSE <<x>> \o sorted

RECURSIVE SortDesc(_)
SortDesc(listing) ==
    IF Len(listing) = 0 THEN <<>>
    ELSE InsertDesc(SortDesc(SubSeq(listing, 1, Len(listing) - 1)),
                    listing[Len(listing)])

SortImages ==
    /\ pc = "sort_images"
    /\ images' = SortDesc(images)
    /\ pc' = "choose_image"
    /\ UNCHANGED <<exitVars, use_root, parent_compartment_ocid, vnets, vcn, subnets, subnet_id,
                   ads, ad_name, win_image_id, compVars, instVars, calls, selects, stdin_line>>

ChooseImage ==
    /\ pc = "choose_image"
    /\ Select("Select Windows Image", images)
    /\ \E typed \in ChoiceInputs :
         LET r == choose_from_list(images, typed)
         IN  IF r.raised # ""
             THEN Raise(r.raised) /\ UNCHANGED win_image_id
             ELSE /\ win_image_id' = r.item.id
                  /\ pc' = "step5"
                  /\ UNCHANGED exitVars
    /\ UNCHANGED <<use_root, parent_compartment_ocid, vnets, vcn, subnets, subnet_id, ads,
                   ad_name, images, compVars, instVars, calls, stdin_line>>

-----------------------------------------------------------------------------
(* Step 5, lines 94-115 *)

\* a creation that is tried again when the cloud refuses it
CreateCompartmentRetried ==
    /\ pc = "step5"
    /\ \/ /\ Call("create_compartment", parent_compartment_ocid, "error")
          /\ UNCHANGED <<pc, exitVars, compartment_id, i>>
       \/ /\ Call("create_compartment", parent_compartment_ocid, "ok")
          /\ compartment_id' = NewCompartmentOcid
          /\ i' = 0
          /\ pc' = "poll"
          /\ UNCHANGED exitVars
    /\ UNCHANGED <<discVars, comp, slept, instVars, selects, stdin_line>>

\* lines 95-103
CreateCompartment ==
    /\ pc = "step5"
    /\ \/ /\ Call("create_compartment", parent_compartment_ocid, "error")
          /\ Raise("ServiceError")
          /\ UNCHANGED <<compartment_id, i>>
       \/ /\ Call("create_compartment", parent_compartment_ocid, "ok")
          /\ compartment_id' = NewCompartmentOcid
          /\ i' = 0
          /\ pc' = "poll"
          /\ UNCHANGED exitVars
    /\ UNCHANGED <<discVars, comp, slept, instVars, selects, stdin_line>>

\* a loop that stops as soon as the compartment is no longer CREATING
IsActiveNotCreating(state) == state # "CREATING"

\* `comp.lifecycle_state == 'ACTIVE'`, line 109
IsActive(state) == state = "ACTIVE"

\* a loop without the break: it sleeps and polls again
AfterBreakMissing == "sleep"

\* `break`, line 111: the statement after the loop, skipping its else clause
AfterBreak == IF INSTANCE_COUNT > 0 THEN "step6" ELSE "all_done"

\* lines 108-111: one get_compartment and the test that breaks out of the loop
GetCompartment ==
    /\ pc = "poll"
    /\ \/ /\ Call("get_compartment", compartment_id, "error")
          /\ Raise("ServiceError")
          /\ UNCHANGED <<comp, idx>>
       \/ \E state \in CompartmentStates :
            /\ comp' = state
            /\ UNCHANGED exitVars
            /\ Call("get_compartment", compartment_id,
                    IF state = "ACTIVE" THEN "ACTIVE" ELSE "other")
            /\ IF IsActive(state)
               THEN pc' = AfterBreak /\ idx' = 0
               ELSE pc' = "sleep" /\ UNCHANGED idx
    /\ UNCHANGED <<discVars, compartment_id, i, slept, instance_id, launched,
                   instances, selects, stdin_line>>

\* a loop that runs one attempt too many
MoreAttemptsOffByOne(attempt) == attempt < PollAttempts

\* `for i in range(30)`: is there another attempt after attempt i
MoreAttempts(attempt) == attempt + 1 < PollAttempts

\* line 112, then the loop header, then the else clause of the loop, lines 113-115
PollSleep ==
    /\ pc = "sleep"
    /\ slept' = slept + SleepSecs
    /\ IF MoreAttempts(i)
       THEN /\ i' = i + 1
            /\ pc' = "poll"
            /\ UNCHANGED exitVars
       ELSE /\ Exit1("Compartment did not become ACTIVE in time. Exiting.")
            /\ UNCHANGED i
    /\ UNCHANGED <<discVars, compartment_id, comp, instVars, calls, selects, stdin_line>>

-----------------------------------------------------------------------------
(* Step 6, lines 119-160 *)

\* line 120
DisplayName(n) == INSTANCE_PREFIX \o "-" \o ToString(n + 1)

\* launch details that place the instance in the parent compartment
LaunchDetailsInParent(n) ==
    [ compartment_id          |-> parent_compartment_ocid,
      availability_domain     |-> ad_name,
      shape                   |-> SHAPE,
      display_name            |-> DisplayName(n),
      image_id                |-> win_image_id,
      boot_volume_size_in_gbs |-> BOOT_VOL_GBS,
      ocpus                   |-> OCPUS,
      memory_in_gbs           |-> MEMORY_GBS,
      subnet_id               |-> subnet_id,
      assign_public_ip        |-> TRUE ]

\* lines 124-142
LaunchDetails(n) ==
    [ compartment_id          |-> compartment_id,
      availability_domain     |-> ad_name,
      shape                   |-> SHAPE,
      display_name            |-> DisplayName(n),
      image_id                |-> win_image_id,
      boot_volume_size_in_gbs |-> BOOT_VOL_GBS,
      ocpus                   |-> OCPUS,
      memory_in_gbs           |-> MEMORY_GBS,
      subnet_id               |-> subnet_id,
      assign_public_ip        |-> TRUE ]

\* lines 120-147
LaunchInstance ==
    /\ pc = "step6"
    /\ launched' = Append(launched, LaunchDetails(idx))
    /\ \/ /\ Call("launch_instance", DisplayName(idx), "error")
          /\ Raise("ServiceError")
          /\ UNCHANGED <<instance_id, instances>>
       \/ /\ Call("launch_instance", DisplayName(idx), "ok")
          /\ instance_id' = Len(instances) + 1
          /\ instances' = Append(instances,
                                 [ display_name    |-> DisplayName(idx),
                                   lifecycle_state |-> "PROVISIONING" ])
          /\ pc' = "get_instance"
          /\ UNCHANGED exitVars
    /\ UNCHANGED <<discVars, compVars, idx, selects, stdin_line>>

\* line 153: the first response handed to oci.wait_until
GetInstance ==
    /\ pc = "get_instance"
    /\ \/ /\ Call("get_instance", instance_id, "error")
          /\ Raise("ServiceError")
       \/ /\ Call("get_instance", instance_id, "ok")
          /\ pc' = "wait_until"
          /\ UNCHANGED exitVars
    /\ UNCHANGED <<discVars, compVars, instVars, selects, stdin_line>>

\* a wait that returns at the first response, whatever its state
ReachedAnyState(state) == state \in InstanceStates

\* the state oci.wait_until waits for, line 155
Reached(state) == state = "RUNNING"

\* a loop that stops one instance short
MoreInstancesOffByOne(n) == n + 2 < INSTANCE_COUNT

\* `for idx in range(INSTANCE_COUNT)`: is there another instance after index n
MoreInstances(n) == n + 1 < INSTANCE_COUNT

\* a loop header that never leaves the loop
NextInstanceForever == idx' = idx + 1 /\ pc' = "step6"

\* the loop header after line 158
NextInstance ==
    IF MoreInstances(idx)
    THEN idx' = idx + 1 /\ pc' = "step6"
    ELSE idx' = idx /\ pc' = "all_done"

\* a timeout that is caught, after which the loop goes on
WaitTimedOutSwallowed ==
    \E state \in InstanceStates :
        /\ ~Reached(state)
        /\ instances' = [instances EXCEPT ![instance_id].lifecycle_state = state]
        /\ Call("wait_until", instance_id, "timeout")
        /\ NextInstance
        /\ UNCHANGED exitVars

\* a timeout handler that cleans up: it terminates the instance it waited for
WaitTimedOutRollback ==
    \E state \in InstanceStates :
        /\ ~Reached(state)
        /\ instances' = SubSeq(instances, 1, Len(instances) - 1)
        /\ calls' = calls \o << [op |-> "wait_until", arg |-> instance_id,
                                 res |-> "timeout"],
                                [op |-> "terminate_instance", arg |-> instance_id,
                                 res |-> "ok"] >>
        /\ Raise("MaximumWaitTimeExceeded")
        /\ UNCHANGED idx

\* max_wait_seconds elapsed without a response in the awaited state:
\* oci.wait_until raises, nothing catches it
WaitTimedOut ==
    \E state \in InstanceStates :
        /\ ~Reached(state)
        /\ instances' = [instances EXCEPT ![instance_id].lifecycle_state = state]
        /\ Call("wait_until", instance_id, "timeout")
        /\ Raise("MaximumWaitTimeExceeded")
        /\ UNCHANGED idx

\* lines 151-158: oci.wait_until returns the first response, the one of line 153
\* or of a later poll, whose lifecycle_state is the awaited one; it raises
\* MaximumWaitTimeExceeded after max_wait_seconds and lets the error of a failed
\* poll through.
WaitUntil ==
    /\ pc = "wait_until"
    /\ \/ \E state \in InstanceStates :
            /\ Reached(state)
            /\ instances' = [instances EXCEPT ![instance_id].lifecycle_state = state]
            /\ Call("wait_until", instance_id, state)
            /\ NextInstance
            /\ UNCHANGED exitVars
       \/ WaitTimedOut
       \/ /\ Call("wait_until", instance_id, "error")
          /\ Raise("ServiceError")
          /\ UNCHANGED <<idx, instances>>
    /\ UNCHANGED <<discVars, compVars, instance_id, launched, selects, stdin_line>>

\* line 160, then the end of the script
AllDone ==
    /\ pc = "all_done"
    /\ pc' = "exited"
    /\ exit_code' = 0
    /\ out' = "All done!"
    /\ raised' = ""
    /\ UNCHANGED <<discVars, compVars, instVars, calls, selects, stdin_line>>

-----------------------------------------------------------------------------
Next ==
    \/ ResolveParent
    \/ ListVcns
    \/ ChooseVcn
    \/ ListSubnets
    \/ ChooseSubnet
    \/ ListAds
    \/ ChooseAd
    \/ ListImages
    \/ SortImages
    \/ ChooseImage
    \/ CreateCompartment
    \/ GetCompartment
    \/ PollSleep
    \/ LaunchInstance
    \/ GetInstance
    \/ WaitUntil
    \/ AllDone

Spec == Init /\ [][Next]_vars

\* The script is one thread; input(), every cloud call and oci.wait_until
\* return or raise, so the statement the script stands at is eventually run.
FairSpec == Spec /\ WF_vars(Next)

-----------------------------------------------------------------------------
(* choose_from_list on its own: the script stands at line 14 of the call of   *)
(* line 64, the user has typed stdin_line, and the candidates are in ads.     *)
(* This is the one call the script makes on a list it has not tested.         *)

MaxChoices == 3        \* longest candidate list handed to the selector

SelectorLists == {[k \in 1..n |-> [name |-> 10 * k]] : n \in 0..MaxChoices}

BlankInputs == { <<>>, <<" ">>, <<" ", "\t">> }

\* lines that are decimal numerals once stripped, with the integer they denote
NumericInputs ==
    { [typed |-> <<"0">>, value |-> 0],
      [typed |-> <<"1">>, value |-> 1],
      [typed |-> <<" ", "1", " ">>, value |-> 1],
      [typed |-> <<"2">>, value |-> 2],
      [typed |-> <<"\t", "2">>, value |-> 2],
      [typed |-> <<"0", "1">>, value |-> 1],
      [typed |-> <<"0", "0">>, value |-> 0],
      [typed |-> <<"3">>, value |-> 3],
      [typed |-> <<"4">>, value |-> 4],
      [typed |-> <<"1", "0">>, value |-> 10] }

\* lines that are no decimal numeral of a natural number
NonNumericInputs ==
    { <<"-", "1">>, <<"x">>, <<"1", "x">>, <<"1", " ", "1">>, <<"sup2">> }

SelectorInputs ==
    BlankInputs \cup {e.typed : e \in NumericInputs} \cup NonNumericInputs

SelectorInit ==
    /\ pc = "input_ad"
    /\ exit_code = -1
    /\ out = ""
    /\ raised = ""
    /\ use_root = <<>>
    /\ parent_compartment_ocid = TenancyOcid
    /\ vnets = <<[id |-> 1]>>
    /\ vcn = [id |-> 1]
    /\ subnets = <<[id |-> 11]>>
    /\ subnet_id = 11
    /\ ads \in SelectorLists
    /\ ad_name = 0
    /\ images = <<>>
    /\ win_image_id = 0
    /\ compartment_id = <<>>
    /\ comp = ""
    /\ i = 0
    /\ slept = 0
    /\ idx = 0
    /\ instance_id = 0
    /\ launched = <<>>
    /\ instances = <<>>
    /\ calls = << [op |-> "list_vcns", arg |-> TenancyOcid, res |-> "found"],
                  [op |-> "list_subnets", arg |-> 1, res |-> "found"],
                  [op |-> "list_availability_domains", arg |-> TenancyOcid,
                   res |-> Listed(ads)] >>
    /\ selects = << [prompt |-> "Select VCN", n |-> 1],
                    [prompt |-> "Select Subnet", n |-> 1],
                    [prompt |-> "Select Availability Domain", n |-> Len(ads)] >>
    /\ stdin_line \in SelectorInputs

\* lines 14-16 for the line typed, then `ad_name = ad.name`, line 65
SelectorReturn ==
    /\ pc = "input_ad"
    /\ LET r == choose_from_list(ads, stdin_line)
       IN  IF r.raised # ""
           THEN Raise(r.raised) /\ UNCHANGED ad_name
           ELSE /\ ad_name' = r.item.name
                /\ pc' = "chosen_ad"
                /\ UNCHANGED exitVars
    /\ UNCHANGED <<use_root, parent_compartment_ocid, vnets, vcn, subnets, subnet_id,
                   ads, images, win_image_id, compVars, instVars, calls, selects,
                   stdin_line>>

SelectorNext == SelectorReturn

SelectorSpec == SelectorInit /\ [][SelectorNext]_vars

-----------------------------------------------------------------------------
(* images.sort on its own: the script stands at line 79 with the listing of   *)
(* line 70, which the test of line 75 found non-empty.                        *)

MaxSortLen == 4        \* longest image listing that is sorted

SortTimes == {1, 2, 3}

SortLists ==
    UNION { {[k \in 1..n |-> [id |-> k, time_created |-> f[k]]] : f \in [1..n -> SortTimes]}
            : n \in 1..MaxSortLen }

SortInit ==
    /\ pc = "sort_images"
    /\ exit_code = -1
    /\ out = ""
    /\ raised = ""
    /\ use_root = <<>>
    /\ parent_compartment_ocid = TenancyOcid
    /\ vnets = <<[id |-> 1]>>
    /\ vcn = [id |-> 1]
    /\ subnets = <<[id |-> 11]>>
    /\ subnet_id = 11
    /\ ads = <<[name |-> 1]>>
    /\ ad_name = 1
    /\ images \in SortLists
    /\ win_image_id = 0
    /\ compartment_id = <<>>
    /\ comp = ""
    /\ i = 0
    /\ slept = 0
    /\ idx = 0
    /\ instance_id = 0
    /\ launched = <<>>
    /\ instances = <<>>
    /\ calls = << [op |-> "list_vcns", arg |-> TenancyOcid, res |-> "found"],
                  [op |-> "list_subnets", arg |-> 1, res |-> "found"],
                  [op |-> "list_availability_domains", arg |-> TenancyOcid,
                   res |-> "found"],
                  [op |-> "list_images", arg |-> TenancyOcid, res |-> "found"] >>
    /\ selects = << [prompt |-> "Select VCN", n |-> 1],
                    [prompt |-> "Select Subnet", n |-> 1],
                    [prompt |-> "Select Availability Domain", n |-> 1] >>
    /\ stdin_line = <<>>

SortNext == SortImages

SortSpec == SortInit /\ [][SortNext]_vars

-----------------------------------------------------------------------------
(* Reading the log of cloud calls *)

CallsOf(op) == {p \in DOMAIN calls : calls[p].op = op}

CallsWith(op, res) == {p \in DOMAIN calls : calls[p].op = op /\ calls[p].res = res}

Ended == pc = "exited"

Aborted == Ended /\ exit_code # 0

TimeoutMessage == "Compartment did not become ACTIVE in time. Exiting."

\* wait_until returned for instance n having seen it RUNNING
ConfirmedRunning(n) ==
    \E p \in CallsOf("wait_until") : calls[p].arg = n /\ calls[p].res = "RUNNING"

ExpectedNames ==
    << "auto-win-instance-1", "auto-win-instance-2", "auto-win-instance-3",
       "auto-win-instance-4" >>

-----------------------------------------------------------------------------
\* C1: every launch_instance call comes after a get_compartment call, made on
\* the compartment this run created, whose response was ACTIVE.
C1_LaunchOnlyAfterActive ==
    \A p \in CallsOf("launch_instance") :
        \E q \in 1..(p - 1) :
            /\ calls[q].op = "get_compartment"
            /\ calls[q].res = "ACTIVE"
            /\ calls[q].arg = NewCompartmentOcid
            /\ \E c \in 1..(q - 1) : calls[c].op = "create_compartment" /\ calls[c].res = "ok"

C1_Witness == CallsOf("launch_instance") # {} /\ i > 0

\* C2: once 30 get_compartment calls have answered something other than ACTIVE,
\* the script is in the sleep that follows the last of them or has exited with
\* status 1 on the timeout message, and no launch_instance call was made.
C2_TimeoutAbortsBeforeLaunch ==
    Cardinality(CallsWith("get_compartment", "other")) >= 30 =>
        /\ Cardinality(CallsOf("get_compartment")) = 30
        /\ \/ pc = "sleep" /\ slept = 2 * 29
           \/ Ended /\ exit_code = 1 /\ out = TimeoutMessage /\ slept = 2 * 30
        /\ CallsOf("launch_instance") = {}
        /\ launched = <<>>

C2_Witness ==
    /\ Ended
    /\ out = TimeoutMessage
    /\ Cardinality(CallsWith("get_compartment", "other")) = 30

\* C3: the display names submitted are auto-win-instance-1, -2, ... in that
\* order, at most INSTANCE_COUNT of them; a launch is submitted only when every
\* instance launched before it was confirmed RUNNING by wait_until; at most one
\* launched instance is not yet confirmed RUNNING.
C3_SequentialLaunch ==
    /\ Len(launched) <= 4
    /\ \A n \in DOMAIN launched : launched[n].display_name = ExpectedNames[n]
    /\ Cardinality(CallsOf("launch_instance")) = Len(launched)
    /\ \A p \in CallsOf("launch_instance") :
           LET n == Cardinality({q \in CallsOf("launch_instance") : q <= p})
           IN  /\ calls[p].arg = ExpectedNames[n]
               /\ \A m \in 1..(n - 1) :
                      \E q \in 1..(p - 1) :
                          /\ calls[q].op = "wait_until"
                          /\ calls[q].arg = m
                          /\ calls[q].res = "RUNNING"
    /\ Cardinality({n \in DOMAIN instances : ~ConfirmedRunning(n)}) <= 1

C3_Witness ==
    /\ Len(launched) = 4
    /\ Len(instances) = 4
    /\ ~ConfirmedRunning(4)

-----------------------------------------------------------------------------
NoResourceMessages ==
    { "No VCNs found in chosen compartment! Exiting.",
      "No subnets found in selected VCN! Exiting.",
      "No Windows images found for this shape! Exiting." }

\* C4: choose_from_list is never invoked on an empty list and never raises for
\* one; once a listing came back empty the run has exited with status 1 on a
\* 'no ... found' message.
C4_EveryListingGated ==
    /\ \A k \in DOMAIN selects : selects[k].n > 0
    /\ raised # "IndexError"
    /\ (\E p \in DOMAIN calls : calls[p].res = "empty") =>
           Ended /\ exit_code = 1 /\ out \in NoResourceMessages

-----------------------------------------------------------------------------
CloudOps ==
    { "list_vcns", "list_subnets", "list_availability_domains", "list_images",
      "create_compartment", "get_compartment", "launch_instance", "get_instance",
      "wait_until" }

LaunchFailedAt(p) ==
    \/ calls[p].op = "launch_instance" /\ calls[p].res = "error"
    \/ calls[p].op = "wait_until" /\ calls[p].res = "timeout"

\* C5: a failed launch_instance or a timed-out wait_until is the last cloud call
\* of the run: the run has exited with a non-zero status, as many launches were
\* submitted as the failing instance's number, every instance before it is still
\* RUNNING, and no call other than the listings, creates, gets and launches was
\* ever issued (no terminate, no delete).
C5_LaunchFailureAborts ==
    /\ \A p \in DOMAIN calls : calls[p].op \in CloudOps
    /\ \A p \in DOMAIN calls :
           LaunchFailedAt(p) =>
               /\ p = Len(calls)
               /\ Aborted
               /\ raised \in {"ServiceError", "MaximumWaitTimeExceeded"}
               /\ Cardinality(CallsOf("launch_instance")) = idx + 1
               /\ Len(launched) = idx + 1
               /\ \A m \in 1..idx :
                      /\ ConfirmedRunning(m)
                      /\ instances[m].lifecycle_state = "RUNNING"

C5_Witness ==
    /\ Ended
    /\ idx = 2
    /\ Len(instances) = 3
    /\ calls[Len(calls)].op = "wait_until"
    /\ calls[Len(calls)].res = "timeout"
    /\ instances[1].lifecycle_state = "RUNNING"
    /\ instances[2].lifecycle_state = "RUNNING"

-----------------------------------------------------------------------------
\* the user declined the root compartment and typed something that does not
\* start with "ocid1.compartment."
InvalidFormat ==
    /\ pc # "step1"
    /\ use_root = <<"n">>
    /\ ~startswith(parent_compartment_ocid, OcidPrefix)

TimedOut == Cardinality(CallsWith("get_compartment", "other")) >= 30

\* C6: a run that ended with status 0 printed 'All done', made exactly
\* INSTANCE_COUNT launch_instance calls, all accepted, and saw every one of the
\* instances RUNNING; a run that ended after an empty listing, an invalid
\* identifier or a compartment or instance timeout ended with a non-zero status.
C6_SuccessOnlyAfterAllRunning ==
    /\ (Ended /\ exit_code = 0) =>
           /\ out = "All done!"
           /\ Cardinality(CallsOf("launch_instance")) = 4
           /\ Cardinality(CallsWith("launch_instance", "ok")) = 4
           /\ Len(instances) = 4
           /\ \A n \in 1..4 :
                  ConfirmedRunning(n) /\ instances[n].lifecycle_state = "RUNNING"
    /\ ( /\ Ended
         /\ \/ \E p \in DOMAIN calls : calls[p].res \in {"empty", "timeout"}
            \/ InvalidFormat
            \/ TimedOut ) => exit_code = 1

C6_Witness == Ended /\ exit_code = 0

-----------------------------------------------------------------------------
\* C7: once list_vcns has returned an empty list the run has exited with status
\* 1 on the 'No VCNs found' message, and list_vcns is the only cloud call made:
\* no list_subnets, list_availability_domains or list_images call was issued.
C7_EmptyVcnsAbortsFirst ==
    CallsWith("list_vcns", "empty") # {} =>
        /\ Ended
        /\ exit_code = 1
        /\ out = "No VCNs found in chosen compartment! Exiting."
        /\ CallsOf("list_subnets") = {}
        /\ CallsOf("list_availability_domains") = {}
        /\ CallsOf("list_images") = {}
        /\ Len(calls) = 1
        /\ selects = <<>>

C7_Witness == CallsWith("list_vcns", "empty") # {} /\ Ended

\* C8: when the user declined the root compartment and typed an identifier that
\* does not start with "ocid1.compartment.", the run has exited with status 1 on
\* the 'Invalid OCID format' message and no cloud call was issued at all.
C8_InvalidOcidAbortsFirst ==
    InvalidFormat =>
        /\ Ended
        /\ exit_code = 1
        /\ out = "Invalid OCID format! Exiting."
        /\ calls = <<>>
        /\ selects = <<>>
        /\ compartment_id = <<>>
        /\ launched = <<>>

C8_Witness == InvalidFormat /\ Ended /\ parent_compartment_ocid = TenancyOcid

ListingOps == {"list_vcns", "list_subnets", "list_availability_domains", "list_images"}

\* C9: a create_compartment call comes after a call of each of the four listings
\* that returned a non-empty list, and after four selections, each from a
\* non-empty list; once a listing came back empty, no create_compartment and no
\* launch_instance call is ever issued.
C9_DiscoveryPrecedesCreation ==
    /\ \A p \in CallsOf("create_compartment") :
           /\ \A op \in ListingOps :
                  \E q \in 1..(p - 1) : calls[q].op = op /\ calls[q].res = "found"
           /\ Len(selects) = 4
           /\ \A k \in DOMAIN selects : selects[k].n > 0
           /\ vcn # NoItem
           /\ subnet_id # 0
           /\ ad_name # 0
           /\ win_image_id # 0
    /\ (\E p \in DOMAIN calls : calls[p].res = "empty") =>
           /\ CallsOf("create_compartment") = {}
           /\ CallsOf("launch_instance") = {}
           /\ launched = <<>>

C9_Witness == CallsOf("create_compartment") # {}

C9_WitnessEmpty == Ended /\ CallsWith("list_availability_domains", "empty") # {}

\* C10: when the k-th get_compartment call answered ACTIVE (1 <= k <= 30), it
\* is the last get_compartment call of the run, k - 1 sleeps of 2 time units
\* were taken, and the script has left the poll loop without the timeout.
C10_PollStopsOnActive ==
    \A p \in CallsWith("get_compartment", "ACTIVE") :
        LET k == Cardinality({q \in CallsOf("get_compartment") : q <= p})
        IN  /\ k \in 1..30
            /\ Cardinality(CallsOf("get_compartment")) = k
            /\ k = i + 1
            /\ slept = 2 * (k - 1)
            /\ pc \notin {"poll", "sleep"}
            /\ out # TimeoutMessage

C10_Witness ==
    /\ Ended
    /\ Cardinality(CallsOf("get_compartment")) = 3
    /\ CallsWith("get_compartment", "ACTIVE") # {}

-----------------------------------------------------------------------------
SelectorDone == pc = "chosen_ad" \/ Ended

\* C11: on a non-empty candidate list, a line that is (once stripped) the
\* numeral of an index within the list makes choose_from_list return the item
\* at that index, and a blank line makes it return the first item.
C11_SelectorReturnsChosen ==
    (SelectorDone /\ Len(ads) > 0) =>
        /\ \A e \in NumericInputs :
               (stdin_line = e.typed /\ e.value < Len(ads)) =>
                   /\ pc = "chosen_ad"
                   /\ raised = ""
                   /\ ad_name = ads[e.value + 1].name
        /\ stdin_line \in BlankInputs =>
               /\ pc = "chosen_ad"
               /\ raised = ""
               /\ ad_name = ads[1].name

C11_Witness ==
    /\ pc = "chosen_ad"
    /\ Len(ads) = 3
    /\ stdin_line = <<" ", "1", " ">>
    /\ ad_name = 20

\* C12: on a non-empty candidate list, a line that is a numeral of an index
\* beyond the list, a negative number or no number at all makes choose_from_list
\* return the first item without raising.
C12_InvalidInputFallsBack ==
    ( /\ SelectorDone
      /\ Len(ads) > 0
      /\ \/ stdin_line \in NonNumericInputs
         \/ \E e \in NumericInputs : stdin_line = e.typed /\ e.value >= Len(ads) ) =>
        /\ pc = "chosen_ad"
        /\ raised = ""
        /\ ad_name = ads[1].name

-----------------------------------------------------------------------------
PositionIn(listing, x) == CHOOSE k \in DOMAIN listing : listing[k] = x

IsStableDescendingSort(before, after) ==
    /\ Len(after) = Len(before)
    /\ \A k \in DOMAIN before : \E j \in DOMAIN after : after[j] = before[k]
    /\ \A j \in DOMAIN after : \E k \in DOMAIN before : before[k] = after[j]
    /\ \A j \in 1..(Len(after) - 1) :
           after[j].time_created >= after[j + 1].time_created
    /\ \A j1, j2 \in DOMAIN after :
           (j1 < j2 /\ after[j1].time_created = after[j2].time_created) =>
               PositionIn(before, after[j1]) < PositionIn(before, after[j2])

\* C13: the step that sorts the image listing leaves a permutation of it whose
\* creation timestamps never increase and in which images with equal
\* timestamps keep the order they were listed in.
C13_StableDescendingSort ==
    [][pc = "sort_images" => IsStableDescendingSort(images, images')]_vars

\* listed as (id 1, time 1), (id 2, time 2), (id 3, time 2)
C13_Witness ==
    /\ pc = "choose_image"
    /\ images = << [id |-> 2, time_created |-> 2],
                   [id |-> 3, time_created |-> 2],
                   [id |-> 1, time_created |-> 1] >>

-----------------------------------------------------------------------------
\* calls that would remove a resource
CleanupOps == {"delete_compartment", "terminate_instance", "delete_instance"}

\* the names of the instances whose launch was accepted, in launch order
AcceptedLaunches ==
    [k \in 1..Cardinality(CallsWith("launch_instance", "ok")) |->
        calls[CHOOSE p \in CallsWith("launch_instance", "ok") :
                  Cardinality({q \in CallsWith("launch_instance", "ok") : q <= p}) = k].arg]

\* C14: no run ever issues a call that deletes or terminates a resource, and a
\* run that has aborted, at whatever stage, still has what it created: the
\* compartment if create_compartment was accepted, and one instance for every
\* accepted launch_instance, under the name it was launched with.
C14_NoRollback ==
    /\ \A p \in DOMAIN calls : calls[p].op \notin CleanupOps
    /\ Aborted =>
           /\ (CallsWith("create_compartment", "ok") # {}) =>
                  compartment_id = NewCompartmentOcid
           /\ Len(instances) = Len(AcceptedLaunches)
           /\ \A k \in DOMAIN instances :
                  instances[k].display_name = AcceptedLaunches[k]

C14_Witness ==
    /\ Aborted
    /\ raised = "MaximumWaitTimeExceeded"
    /\ compartment_id = NewCompartmentOcid
    /\ Len(instances) = 2
    /\ idx = 1

-----------------------------------------------------------------------------
\* C15: every launch details record submitted carries the id of the compartment
\* created in this run, which is not the parent compartment, and the subnet id,
\* availability domain name and image id chosen in discovery, each taken from
\* the listing it was chosen from; any two records submitted differ in their
\* display name and in nothing else.
C15_LaunchDetailsThreaded ==
    /\ \A k \in DOMAIN launched :
           /\ CallsWith("create_compartment", "ok") # {}
           /\ launched[k].compartment_id = NewCompartmentOcid
           /\ launched[k].compartment_id = compartment_id
           /\ launched[k].compartment_id # parent_compartment_ocid
           /\ launched[k].subnet_id = subnet_id
           /\ \E j \in DOMAIN subnets : subnets[j].id = launched[k].subnet_id
           /\ launched[k].availability_domain = ad_name
           /\ \E j \in DOMAIN ads : ads[j].name = launched[k].availability_domain
           /\ launched[k].image_id = win_image_id
           /\ \E j \in DOMAIN images : images[j].id = launched[k].image_id
    /\ \A k1, k2 \in DOMAIN launched :
           k1 # k2 =>
               /\ launched[k1].display_name # launched[k2].display_name
               /\ launched[k1] =
                      [launched[k2] EXCEPT !.display_name = launched[k1].display_name]

C15_Witness ==
    /\ Ended
    /\ exit_code = 0
    /\ Len(launched) = INSTANCE_COUNT
    /\ launched[INSTANCE_COUNT].compartment_id = NewCompartmentOcid
    /\ launched[INSTANCE_COUNT].display_name = "auto-win-instance-4"

-----------------------------------------------------------------------------
PastPolling == pc \in {"step6", "get_instance", "wait_until", "all_done"}

\* C16: a run never makes more than 30 get_compartment calls; every response
\* that is not ACTIVE, CREATING or not, is followed by a sleep of 2 time units
\* and, while attempts remain, by another call; the timeout abort comes after
\* exactly 30 such responses and 60 time units of sleep; and the script goes on
\* past the loop only when the last response was ACTIVE.
C16_PollBudget ==
    LET gets   == CallsOf("get_compartment")
        others == CallsWith("get_compartment", "other")
        active == CallsWith("get_compartment", "ACTIVE")
        errors == CallsWith("get_compartment", "error")
    IN  /\ Cardinality(gets) <= 30
        /\ slept = 2 * (Cardinality(others) - (IF pc = "sleep" THEN 1 ELSE 0))
        /\ out = TimeoutMessage =>
               /\ Aborted
               /\ Cardinality(gets) = 30
               /\ others = gets
               /\ slept = 60
        /\ (gets # {} /\ active = {} /\ errors = {}) =>
               \/ pc \in {"poll", "sleep"} /\ Cardinality(gets) <= 30
               \/ Aborted /\ out = TimeoutMessage
        /\ (PastPolling \/ launched # <<>> \/ exit_code = 0) =>
               /\ Cardinality(active) = 1
               /\ \A p \in gets : \A q \in active : p <= q
               /\ comp = "ACTIVE"
        /\ pc = "sleep" => comp \in CompartmentStates \ {"ACTIVE"}

C16_Witness ==
    /\ Aborted
    /\ out = TimeoutMessage
    /\ comp = "DELETED"
    /\ slept = 60
    /\ Cardinality(CallsWith("get_compartment", "other")) = 30

-----------------------------------------------------------------------------
\* C17: create_compartment is called at most once in a run, launch_instance at
\* most once for each instance name and at most INSTANCE_COUNT (4) times, and a
\* call that failed is the last call of the run, which has ended with the
\* ServiceError uncaught.
C17_NoRetry ==
    /\ Cardinality(CallsOf("create_compartment")) <= 1
    /\ Cardinality(CallsOf("launch_instance")) <= 4
    /\ \A p, q \in CallsOf("launch_instance") : calls[p].arg = calls[q].arg => p = q
    /\ \A p \in DOMAIN calls :
           calls[p].res = "error" =>
               /\ p = Len(calls)
               /\ Aborted
               /\ raised = "ServiceError"

C17_Witness ==
    /\ Aborted
    /\ raised = "ServiceError"
    /\ Cardinality(CallsOf("launch_instance")) = 3
    /\ calls[Len(calls)] =
           [op |-> "launch_instance", arg |-> "auto-win-instance-3", res |-> "error"]

-----------------------------------------------------------------------------
\* C18: every run ends, at the success exit or at an abort, and no run makes
\* more than 30 get_compartment calls or more than INSTANCE_COUNT (4)
\* launch_instance calls.
C18_Terminates ==
    /\ <>Ended
    /\ [](/\ Cardinality(CallsOf("get_compartment")) <= 30
          /\ Cardinality(CallsOf("launch_instance")) <= 4
          /\ i < 30
          /\ idx < 4)

\* a run that used the whole poll budget but one and then launched everything
C18_Witness ==
    /\ Ended
    /\ exit_code = 0
    /\ Cardinality(CallsOf("get_compartment")) = 30
    /\ Cardinality(CallsOf("launch_instance")) = 4

====
